---- MODULE Spec2Model ----
(***************************************************************************)
(* Model of mcp_server.py: the Mem0MCPComponent facade (get_state,         *)
(* update_state, invoke) served by FastAPI.  The three endpoints are plain *)
(* `def` functions, which FastAPI runs on a thread pool, so several        *)
(* requests execute concurrently against the one module-level `component`. *)
(* Each worker thread is a process of the model; a handler is cut into     *)
(* steps only where it touches the shared `component.state` or the engine. *)
(***************************************************************************)
EXTENDS Naturals, Sequences, FiniteSets, TLC

\* ---------------------------------------------------------------- bounds

\* Number of worker threads serving requests concurrently.
NumWorkers == 2

Workers == 1..NumWorkers

\* ---------------------------------------------------------------- values

\* Python's None (an absent Optional[str], a dict.get() miss, a JSON null).
None == "<None>"

\* Values a client may send as MCPState.user_id.
UserIds == {None, "", "u1", "u2"}

\* Values of InvokePayload.action a client may send.
Actions == {"add", "search", "delete"}

\* Values of payload.get("content") / payload.get("query").
ContentValues == {None, "", "hello"}
QueryValues == {None, "", "hi"}

\* The payload dicts a client may send, seen through dict.get on the two
\* keys the handler reads (a key that is not in the dict reads as None).
Payloads ==
  {p \in [content : ContentValues, query : QueryValues] :
     p.content = None \/ p.query = None}

\* What the engine's search may return (an ordered list), and the messages
\* of the exceptions the engine may raise.
EngineResults == {<<>>, <<"m1", "m2">>, <<"m2", "m1">>}
EngineMessages == {"engine down"}

\* MCPState(user_id=u)
MCPState(u) == [user_id |-> u]

\* Faulty variant of Falsy: `v is None`, which lets the empty string through.
FalsyIsNone(v) == v = None

\* Python truthiness of the values above: `not v`.
Falsy(v) == v \in {None, ""}

\* ---------------------------------------------------------------- state

VARIABLES
  state,        \* component.state, the one MCPState shared by all requests
  pc,           \* where each worker thread stands in its handler
  op,           \* the endpoint each worker is serving
  invoke_data,  \* invoke's argument (InvokePayload) on each worker
  user_id,      \* invoke's local `user_id` on each worker
  calls,        \* the engine calls made by each worker's current invoke
  resp,         \* the HTTP response each worker's handler produced
  lastUpdate,   \* history: the new_state of the latest update_state
  writtenAtRead \* history: the user_id last written when invoke read it

vars ==
  <<state, pc, op, invoke_data, user_id, calls, resp, lastUpdate, writtenAtRead>>

\* InvokePayload(action=a, payload=p)
InvokePayload(a, p) == [action |-> a, payload |-> p]

NoInvoke == InvokePayload(None, [content |-> None, query |-> None])

NoResponse == [status_code |-> 0, body |-> [none |-> TRUE]]

\* An HTTP response: a status code and a JSON body.
Response(code, body) == [status_code |-> code, body |-> body]

\* ---------------------------------------------------------------- exceptions

\* HTTPException(status_code=code, detail={"error": msg})
HTTPException(code, msg) ==
  [type |-> "HTTPException", status_code |-> code, error |-> msg]

\* An exception raised inside the engine, with its message.
EngineException(msg) == [type |-> "Exception", status_code |-> 0, error |-> msg]

\* Faulty variant of Str: the message is wrapped in a prefix.
StrWrapped(e) == "Engine error: " \o e.error

\* str(e): an HTTPException prints as "<status_code>: <detail>" (Starlette's
\* __str__), the detail dict by its repr; any other exception prints as its
\* message.
Str(e) ==
  IF e.type = "HTTPException"
    THEN ToString(e.status_code) \o ": {'error': '" \o e.error \o "'}"
    ELSE e.error

\* FastAPI's rendering of a raised HTTPException: its status code and
\* {"detail": detail}.
Raised(e) == Response(e.status_code, [detail |-> [error |-> e.error]])

\* The handler of `except Exception as e`: every exception leaving the try
\* block, an HTTPException raised in it included, becomes a 500 whose error
\* is str(e).
ExceptClause(e) == HTTPException(500, Str(e))

\* ---------------------------------------------------------------- invoke, locally

\* Faulty variant of UserIdNotSet: the precondition is never checked.
UserIdNotSetNever(uid) == FALSE

\* `if not user_id:` -- the precondition of invoke.
UserIdNotSet(uid) == Falsy(uid)

\* What a stretch of invoke's code ends in: an exception leaving it, or
\* the engine operation it is about to call with its first argument.
RaiseOut(e) == [kind |-> "raise", exc |-> e, op |-> None, text |-> None]
CallOut(name, text) ==
  [kind |-> "call", exc |-> HTTPException(0, ""), op |-> name, text |-> text]

\* The body of the try block up to the engine call: the dispatch on
\* `action` and the check of the payload field the action needs.
TryBody(data) ==
  IF data.action = "add"
    THEN IF Falsy(data.payload.content)
           THEN RaiseOut(HTTPException(400, "Missing 'content'."))
           ELSE CallOut("add", data.payload.content)
    ELSE IF data.action = "search"
      THEN IF Falsy(data.payload.query)
             THEN RaiseOut(HTTPException(400, "Missing 'query'."))
             ELSE CallOut("search", data.payload.query)
      ELSE RaiseOut(HTTPException(400, "Unknown action: " \o data.action))

\* Faulty variant of BeforeEngine: the precondition is checked after the
\* dispatch and the payload check.
BeforeEngineCheckLast(data, uid) ==
  LET r == TryBody(data) IN
  IF r.kind = "raise"
    THEN RaiseOut(ExceptClause(r.exc))
    ELSE IF UserIdNotSet(uid)
      THEN RaiseOut(HTTPException(400, "user_id is not set. Please update state first."))
      ELSE r

\* invoke from the precondition to the engine call: the precondition is
\* checked outside the try block, everything else inside it, so what the
\* try body raises passes through the except clause.
BeforeEngine(data, uid) ==
  IF UserIdNotSet(uid)
    THEN RaiseOut(HTTPException(400, "user_id is not set. Please update state first."))
    ELSE LET r == TryBody(data) IN
         IF r.kind = "raise" THEN RaiseOut(ExceptClause(r.exc)) ELSE r

\* Faulty variant of EngineCall: the two arguments are swapped.
EngineCallSwapped(name, text, uid) ==
  [op |-> name, text |-> uid, user_id |-> text,
   outcome |-> "pending", results |-> <<>>, message |-> ""]

\* One call of the engine as a recording double sees it: the operation,
\* its arguments, and how it ended.
EngineCall(name, text, uid) ==
  [op |-> name, text |-> text, user_id |-> uid,
   outcome |-> "pending", results |-> <<>>, message |-> ""]

\* Faulty variant of EngineUserArg: self.state.user_id is read again at the
\* call.
EngineUserArgReread(w) == state.user_id

\* The user_id argument of self.mem0.add / self.mem0.search: the local
\* variable invoke read at its start.
EngineUserArg(w) == user_id[w]

\* return {"result": "Memory added successfully."}
AddResponse == Response(200, [result |-> "Memory added successfully."])

\* Faulty variant of SearchResponse: only the first result is returned.
SearchResponseTruncated(results) ==
  Response(200, [result |-> IF results = <<>> THEN <<>> ELSE <<Head(results)>>])

\* return {"result": results}
SearchResponse(results) == Response(200, [result |-> results])

\* Faulty variant of NewState: an absent user_id keeps the old state.
NewStateMerged(old, new) == IF new.user_id = None THEN old ELSE new

\* self.state = new_state
NewState(old, new) == new

\* ---------------------------------------------------------------- actions

Init ==
  /\ state = MCPState(None)
  /\ pc = [w \in Workers |-> "idle"]
  /\ op = [w \in Workers |-> "none"]
  /\ invoke_data = [w \in Workers |-> NoInvoke]
  /\ user_id = [w \in Workers |-> None]
  /\ calls = [w \in Workers |-> <<>>]
  /\ resp = [w \in Workers |-> NoResponse]
  /\ lastUpdate = MCPState(None)
  /\ writtenAtRead = [w \in Workers |-> None]

\* POST /get_state: return component.state.
GetState(w) ==
  /\ pc[w] = "idle"
  /\ op' = [op EXCEPT ![w] = "get_state"]
  /\ resp' = [resp EXCEPT ![w] = Response(200, state)]
  /\ pc' = [pc EXCEPT ![w] = "done"]
  /\ UNCHANGED <<state, invoke_data, user_id, calls, lastUpdate, writtenAtRead>>

\* POST /update_state, first statement: self.state = new_state.
UpdateStateWrite(w, new_state) ==
  /\ pc[w] = "idle"
  /\ op' = [op EXCEPT ![w] = "update_state"]
  /\ state' = NewState(state, new_state)
  /\ lastUpdate' = new_state
  /\ pc' = [pc EXCEPT ![w] = "upd_return"]
  /\ UNCHANGED <<invoke_data, user_id, calls, resp, writtenAtRead>>

\* POST /update_state, second statement: the confirmation reads self.state
\* again, so it echoes whatever the state is by then.
UpdateStateReturn(w) ==
  /\ pc[w] = "upd_return"
  /\ resp' = [resp EXCEPT ![w] =
                Response(200, [status |-> "success", new_state |-> state])]
  /\ pc' = [pc EXCEPT ![w] = "done"]
  /\ UNCHANGED <<state, op, invoke_data, user_id, calls, lastUpdate, writtenAtRead>>

\* POST /invoke from its start to the engine call: the one read of
\* self.state.user_id, then the precondition, the dispatch and the payload
\* check, which touch nothing shared.
InvokeRead(w, data) ==
  /\ pc[w] = "idle"
  /\ op' = [op EXCEPT ![w] = "invoke"]
  /\ invoke_data' = [invoke_data EXCEPT ![w] = data]
  /\ user_id' = [user_id EXCEPT ![w] = state.user_id]
  /\ LET r == BeforeEngine(data, state.user_id) IN
     IF r.kind = "raise"
       THEN /\ resp' = [resp EXCEPT ![w] = Raised(r.exc)]
            /\ pc' = [pc EXCEPT ![w] = "done"]
       ELSE /\ resp' = resp
            /\ pc' = [pc EXCEPT ![w] = "inv_call"]
  /\ writtenAtRead' = [writtenAtRead EXCEPT ![w] = lastUpdate.user_id]
  /\ UNCHANGED <<state, calls, lastUpdate>>

\* invoke enters self.mem0.add(...) or self.mem0.search(...).
InvokeCallEngine(w) ==
  /\ pc[w] = "inv_call"
  /\ LET r == TryBody(invoke_data[w]) IN
     calls' = [calls EXCEPT ![w] =
                 Append(@, EngineCall(r.op, r.text, EngineUserArg(w)))]
  /\ pc' = [pc EXCEPT ![w] = "inv_engine"]
  /\ UNCHANGED <<state, op, invoke_data, user_id, resp, lastUpdate, writtenAtRead>>

\* The engine call returns; invoke returns its result.
EngineReturn(w, results) ==
  /\ pc[w] = "inv_engine"
  /\ calls' = [calls EXCEPT ![w][Len(calls[w])] =
                 [@ EXCEPT !.outcome = "returned", !.results = results]]
  /\ resp' = [resp EXCEPT ![w] =
                IF invoke_data[w].action = "add"
                  THEN AddResponse
                  ELSE SearchResponse(results)]
  /\ pc' = [pc EXCEPT ![w] = "done"]
  /\ UNCHANGED <<state, op, invoke_data, user_id, lastUpdate, writtenAtRead>>

\* The engine call raises; the except clause turns it into a 500.
EngineRaise(w, msg) ==
  /\ pc[w] = "inv_engine"
  /\ calls' = [calls EXCEPT ![w][Len(calls[w])] =
                 [@ EXCEPT !.outcome = "raised", !.message = msg]]
  /\ resp' = [resp EXCEPT ![w] = Raised(ExceptClause(EngineException(msg)))]
  /\ pc' = [pc EXCEPT ![w] = "done"]
  /\ UNCHANGED <<state, op, invoke_data, user_id, lastUpdate, writtenAtRead>>

\* The endpoint function returns: the response goes out and the worker
\* thread is free for the next request.
Respond(w) ==
  /\ pc[w] = "done"
  /\ pc' = [pc EXCEPT ![w] = "idle"]
  /\ op' = [op EXCEPT ![w] = "none"]
  /\ invoke_data' = [invoke_data EXCEPT ![w] = NoInvoke]
  /\ user_id' = [user_id EXCEPT ![w] = None]
  /\ calls' = [calls EXCEPT ![w] = <<>>]
  /\ resp' = [resp EXCEPT ![w] = NoResponse]
  /\ writtenAtRead' = [writtenAtRead EXCEPT ![w] = None]
  /\ UNCHANGED <<state, lastUpdate>>

Next ==
  \E w \in Workers :
    \/ GetState(w)
    \/ \E u \in UserIds : UpdateStateWrite(w, MCPState(u))
    \/ UpdateStateReturn(w)
    \/ \E a \in Actions, p \in Payloads : InvokeRead(w, InvokePayload(a, p))
    \/ InvokeCallEngine(w)
    \/ \E results \in EngineResults : EngineReturn(w, results)
    \/ \E msg \in EngineMessages : EngineRaise(w, msg)
    \/ Respond(w)

Spec == Init /\ [][Next]_vars

\* ---------------------------------------------------------------- properties

\* Worker w's invoke has produced its response.
InvokeDone(w) == op[w] = "invoke" /\ pc[w] = "done"

\* The error response a client sees: a status code and {"detail": {"error": msg}}.
ErrorResponse(code, msg) ==
  [status_code |-> code, body |-> [detail |-> [error |-> msg]]]

UserIdNotSetMessage == "user_id is not set. Please update state first."

\* C1, as stated: whenever an invoke is inside the engine's add or search,
\* the shared state's user_id is present.
C1_SharedUserIdPresentDuringCall ==
  \A w \in Workers : pc[w] = "inv_engine" => state.user_id # None

\* C1, amended: whenever an invoke is inside the engine's add or search, the
\* user_id it read at its start, which is the one it passes to the engine,
\* is present and non-empty (the shared state may have been reset since).
C1_ReadUserIdPresentDuringCall ==
  \A w \in Workers :
    pc[w] = "inv_engine" =>
      /\ user_id[w] \notin {None, ""}
      /\ calls[w][Len(calls[w])].user_id \notin {None, ""}

\* An invoke is inside the engine while the shared user_id is absent.
C1_Witness ==
  \E w \in Workers :
    /\ pc[w] = "inv_engine"
    /\ state.user_id = None
    /\ calls[w][1].user_id = "u1"

\* C2: a get_state returns exactly the new_state of the latest update_state
\* (the initial state before any), whatever the state was before it.
C2_WriteThenRead ==
  [][\A w \in Workers :
       (pc[w] = "idle" /\ pc'[w] = "done" /\ op'[w] = "get_state") =>
         resp'[w] = [status_code |-> 200, body |-> lastUpdate]]_vars

\* A get_state returned an absent user_id after "u1" had been set: one
\* worker's invoke still holds the "u1" it read, the latest update_state
\* wrote an absent user_id, and the other worker's get_state shows it.
C2_Witness ==
  \E w, v \in Workers :
    /\ pc[w] = "inv_engine" /\ user_id[w] = "u1"
    /\ lastUpdate = [user_id |-> None]
    /\ op[v] = "get_state" /\ pc[v] = "done"
    /\ resp[v].body = [user_id |-> None]

\* C3: an invoke that read an absent user_id ends at once with 400
\* "user_id is not set", whatever its action and payload, and calls no engine
\* operation.
C3_AbsentUserIdRejected ==
  \A w \in Workers :
    (op[w] = "invoke" /\ user_id[w] = None) =>
      /\ pc[w] = "done"
      /\ resp[w] = ErrorResponse(400, UserIdNotSetMessage)
      /\ calls[w] = <<>>

\* An invoke with an unknown action and one with a missing content were
\* both rejected for the absent user_id.
C3_Witness ==
  \E w, v \in Workers :
    /\ InvokeDone(w) /\ user_id[w] = None
    /\ invoke_data[w].action = "delete"
    /\ InvokeDone(v) /\ user_id[v] = None
    /\ invoke_data[v].action = "add" /\ invoke_data[v].payload.content = None
    /\ resp[w].status_code = 400 /\ resp[v].status_code = 400

\* C4, as stated: with a user_id present, an add without content or a search
\* without query ends with status 400 and no engine call.
C4_MissingFieldIs400 ==
  \A w \in Workers :
    ( /\ InvokeDone(w)
      /\ user_id[w] \notin {None, ""}
      /\ \/ invoke_data[w].action = "add"
            /\ invoke_data[w].payload.content \in {None, ""}
         \/ invoke_data[w].action = "search"
            /\ invoke_data[w].payload.query \in {None, ""} ) =>
      /\ resp[w].status_code = 400
      /\ calls[w] = <<>>

\* C5, as stated: with a user_id present, an action other than add and
\* search ends with status 400 and no engine call.
C5_UnknownActionIs400 ==
  \A w \in Workers :
    ( /\ InvokeDone(w)
      /\ user_id[w] \notin {None, ""}
      /\ invoke_data[w].action \notin {"add", "search"} ) =>
      /\ resp[w].status_code = 400
      /\ calls[w] = <<>>

\* C6: no invoke calls the engine more than once, and when the engine call
\* raised, the invoke made exactly that one call and ends with status 500
\* and the engine's message as its error.
C6_EngineFailurePassedThrough ==
  \A w \in Workers :
    /\ Len(calls[w]) <= 1
    /\ (InvokeDone(w) /\ calls[w] # <<>> /\ calls[w][1].outcome = "raised") =>
         /\ Len(calls[w]) = 1
         /\ resp[w] = ErrorResponse(500, calls[w][1].message)

\* An invoke ended after its engine call raised.
C6_Witness ==
  \E w \in Workers :
    /\ InvokeDone(w)
    /\ Len(calls[w]) = 1
    /\ calls[w][1].outcome = "raised"
    /\ calls[w][1].message = "engine down"
    /\ resp[w].status_code = 500

\* C7: an add with non-empty content c by an invoke that read the present
\* user_id u makes exactly one engine call, add(c, u), none to search, and
\* when that call returns the invoke answers 200 with the acknowledgement.
C7_AddForwarded ==
  \A w \in Workers :
    ( /\ InvokeDone(w)
      /\ invoke_data[w].action = "add"
      /\ invoke_data[w].payload.content \notin {None, ""}
      /\ user_id[w] \notin {None, ""} ) =>
      /\ Len(calls[w]) = 1
      /\ calls[w][1].op = "add"
      /\ calls[w][1].text = invoke_data[w].payload.content
      /\ calls[w][1].user_id = user_id[w]
      /\ calls[w][1].outcome = "returned" =>
           resp[w] = [status_code |-> 200,
                      body |-> [result |-> "Memory added successfully."]]

\* An add of "hello" for "u1" was acknowledged.
C7_Witness ==
  \E w \in Workers :
    /\ InvokeDone(w)
    /\ invoke_data[w].action = "add"
    /\ user_id[w] = "u1"
    /\ Len(calls[w]) = 1
    /\ calls[w][1].text = "hello"
    /\ calls[w][1].outcome = "returned"
    /\ resp[w].status_code = 200

\* C8: a search with non-empty query q by an invoke that read the present
\* user_id u makes exactly one engine call, search(q, u), and when that call
\* returns the invoke answers 200 with the very sequence the engine returned.
C8_SearchPassthrough ==
  \A w \in Workers :
    ( /\ InvokeDone(w)
      /\ invoke_data[w].action = "search"
      /\ invoke_data[w].payload.query \notin {None, ""}
      /\ user_id[w] \notin {None, ""} ) =>
      /\ Len(calls[w]) = 1
      /\ calls[w][1].op = "search"
      /\ calls[w][1].text = invoke_data[w].payload.query
      /\ calls[w][1].user_id = user_id[w]
      /\ calls[w][1].outcome = "returned" =>
           /\ resp[w].status_code = 200
           /\ resp[w].body = [result |-> calls[w][1].results]

\* A search of "hi" for "u1" returned the engine's two results in the
\* engine's order.
C8_Witness ==
  \E w \in Workers :
    /\ InvokeDone(w)
    /\ invoke_data[w].action = "search"
    /\ user_id[w] = "u1"
    /\ Len(calls[w]) = 1
    /\ calls[w][1].text = "hi"
    /\ calls[w][1].outcome = "returned"
    /\ calls[w][1].results = <<"m2", "m1">>
    /\ resp[w].body.result = <<"m2", "m1">>

\* C9: the user_id of every engine call is the value that was last written
\* when the invoke read the state, which is also the invoke's local user_id;
\* an update_state since then has not changed it.
C9_EngineGetsValueAtRead ==
  \A w \in Workers :
    \A i \in DOMAIN calls[w] :
      /\ calls[w][i].user_id = writtenAtRead[w]
      /\ calls[w][i].user_id = user_id[w]

\* An invoke read "u1", an update_state then wrote "u2", and the invoke is
\* inside the engine with "u1".
C9_Witness ==
  \E w \in Workers :
    /\ pc[w] = "inv_engine"
    /\ calls[w][1].user_id = "u1"
    /\ state.user_id = "u2"
    /\ lastUpdate.user_id = "u2"

\* C10: update_state stores an empty user_id as it stores any other and
\* answers 200, an invoke that read the empty user_id ends at once with 400
\* "user_id is not set" without an engine call, and no engine call carries
\* an empty user_id.
C10_EmptyUserIdRejected ==
  /\ state = lastUpdate
  /\ \A w \in Workers :
       /\ (op[w] = "update_state" /\ pc[w] = "done") => resp[w].status_code = 200
       /\ (op[w] = "invoke" /\ user_id[w] = "") =>
            /\ pc[w] = "done"
            /\ resp[w] = ErrorResponse(400, UserIdNotSetMessage)
            /\ calls[w] = <<>>
       /\ \A i \in DOMAIN calls[w] : calls[w][i].user_id # ""

\* With the empty user_id stored, a get_state returned it and a well-formed
\* add was rejected.
C10_Witness ==
  \E w, v \in Workers :
    /\ state.user_id = ""
    /\ op[v] = "get_state" /\ pc[v] = "done" /\ resp[v].body = [user_id |-> ""]
    /\ InvokeDone(w) /\ user_id[w] = ""
    /\ invoke_data[w].action = "add" /\ invoke_data[w].payload.content = "hello"
    /\ resp[w].status_code = 400

====
